---- MODULE Spec2Model ----
(***************************************************************************)
(* Model of the Cartographer wrapper around the Rerun viewer               *)
(* (src/src/main.rs): the startup sequence of main, the eframe::App        *)
(* handlers of CartographerRerun (update, save), the inspection panel      *)
(* (ui, entity_db_ui, entity_ui, component_ui) and format_arrow.           *)
(*                                                                         *)
(* The viewer, the recording store, egui and the network receiver are      *)
(* external collaborators.  They are modelled by what main.rs relies on:   *)
(*   - a fallible call (`?`) either succeeds or fails;                     *)
(*   - the store answers entity_paths / all_components / latest_at from    *)
(*     its current contents, in an order of its own;                       *)
(*   - egui::Ui::collapsing runs its body closure only while the header    *)
(*     is open; which headers are open is the user's choice each frame;    *)
(*   - the receiver feeds the store only once it is attached to the        *)
(*     viewer.                                                             *)
(* An Option<T> is a sequence of length 0 (None) or 1 (Some).              *)
(***************************************************************************)
EXTENDS Integers, Sequences, FiniteSets, TLC

VARIABLES
    pc,                 \* position of main
    result,             \* what main returned: "none" while running, "ok", or the error
    rx,                 \* where the receiver handle is
    listener,           \* Option: the address and port the receiver is bound to
    serve_calls,        \* number of re_sdk_comms::serve calls made
    add_receiver_calls, \* number of rerun_app.add_receiver calls made
    window_created,     \* eframe::run_native created the native window
    viewer_constructed, \* re_viewer::App::new has run
    recording,          \* rerun_app.recording_db(): Option<EntityDb>
    ingests,            \* number of log messages the receiver has fed to the store
    last,               \* what the last eframe::App handler call (update, save) did
    fmt_in,             \* format_arrow: the value slice it was given
    fmt_out             \* format_arrow: Option<String> it returned

vars == <<pc, result, rx, listener, serve_calls, add_receiver_calls, window_created,
          viewer_constructed, recording, ingests, last,
          fmt_in, fmt_out>>

(***************************************************************************)
(* Bounds of the model                                                     *)
(***************************************************************************)
MaxEntities == 2
MaxComponents == 2
MaxInstances == 2
MaxIngest == 2
SizeMargin == 3

\* `if bytes < 256`
SMALL_ITEM_LIMIT == 256

None == <<>>
Some(x) == <<x>>
IsSome(o) == Len(o) = 1
Unwrap(o) == o[1]

(***************************************************************************)
(* Values, arrays and format_arrow                                         *)
(***************************************************************************)
\* One instance of a component column: its size in bytes, whether it is null,
\* what arrow2's display writes for it, and whether that display call succeeds.
Value(bytes, text, is_null, render_ok) ==
    [bytes |-> bytes, text |-> text, is_null |-> is_null, render_ok |-> render_ok]

RECURSIVE SumBytes(_)
SumBytes(array) ==
    IF array = <<>> THEN 0 ELSE Head(array).bytes + SumBytes(Tail(array))

\* re_types::SizeBytes::total_size_bytes of an array: the visible size of its values
total_size_bytes(array) == SumBytes(array)

\* data.sliced(offset, length)
sliced(data, offset, length) == SubSeq(data, offset + 1, offset + length)

\* arrow2::array::get_display(value, null)(&mut string, index): Result<String>
get_display(array, null, index) ==
    LET v == array[index + 1]
    IN  [is_ok  |-> v.render_ok,
         string |-> IF v.is_null THEN null ELSE v.text]

\* Faulty variant: the size test admits a value of exactly the limit.
format_arrow_le(value) ==
    LET bytes == total_size_bytes(value)
        display == get_display(value, "null", 0)
    IN  IF bytes <= SMALL_ITEM_LIMIT /\ display.is_ok
        THEN display.string
        ELSE ToString(bytes) \o " bytes"

format_arrow(value) ==
    LET bytes == total_size_bytes(value)
        display == get_display(value, "null", 0)
    IN  IF bytes < SMALL_ITEM_LIMIT /\ display.is_ok
        THEN display.string
        ELSE ToString(bytes) \o " bytes"

(***************************************************************************)
(* The recording store (re_entity_db::EntityDb), as main.rs queries it     *)
(***************************************************************************)
EntityPaths == 1..MaxEntities
ComponentNames == 1..MaxComponents

\* entity_path.to_string()
EntityPathToString(entity_path) == "/entity/" \o ToString(entity_path)

\* component.to_string()
ComponentNameToString(component) == "rerun.components.C" \o ToString(component)

\* re_log_types::Timeline::log_time()
log_time == "log_time"

\* re_data_store::LatestAtQuery::latest(timeline)
LatestAtQuery_latest(timeline) == [timeline |-> timeline, at |-> "MAX"]

\* A recording just created by the first log message of a client.
EmptyDb(application_id) ==
    [application_id |-> application_id,
     entity_paths   |-> <<>>,
     components     |-> [e \in EntityPaths |-> None],
     data           |-> [k \in EntityPaths \X ComponentNames |-> None]]

\* entity_db.store_info(): Option of the application id
store_info(entity_db) == entity_db.application_id

\* entity_db.entity_paths(): the paths, in the store's order
entity_paths(entity_db) == entity_db.entity_paths

\* entity_db.store().all_components(&timeline, entity_path): Option<set of names>
all_components(entity_db, timeline, entity_path) ==
    IF timeline = log_time THEN entity_db.components[entity_path] ELSE None

\* entity_db.query_caches().latest_at(store, &query, entity_path, [component_name])
\* followed by results.components.get(..).and_then(|r| r.raw(..)): Option<column>
latest_at(entity_db, query, entity_path, component_name) ==
    IF query.timeline = log_time /\ query.at = "MAX"
    THEN entity_db.data[<<entity_path, component_name>>]
    ELSE None

(***************************************************************************)
(* egui output: a frame's panel is a sequence of widgets, and the calls    *)
(* made on the store while drawing it are kept beside it.                  *)
(***************************************************************************)
Widget(kind, text, open, body) ==
    [kind |-> kind, text |-> text, open |-> open, body |-> body]

add_space(amount)  == Widget("space", ToString(amount), TRUE, <<>>)
separator          == Widget("separator", "", TRUE, <<>>)
strong(text)       == Widget("strong", text, TRUE, <<>>)
label(text)        == Widget("label", text, TRUE, <<>>)
vertical_centered(body) == Widget("vertical_centered", "", TRUE, body)
ScrollArea(body)   == Widget("scroll_area", "", TRUE, body)

Query(call, entity_path, component) ==
    [call |-> call, entity_path |-> entity_path, component |-> component]

Drawn(widgets, queries) == [widgets |-> widgets, queries |-> queries]
Nothing == Drawn(<<>>, <<>>)
Then(a, b) == Drawn(a.widgets \o b.widgets, a.queries \o b.queries)

\* Faulty variant: the body closure runs whether or not the header is open.
collapsing_always(heading, is_open, contents) ==
    Drawn(<<Widget("collapsing", heading, is_open, contents.widgets)>>,
          contents.queries)

\* ui.collapsing(heading, add_contents): the header is always drawn, the body
\* closure runs only while the header is open.
collapsing(heading, is_open, contents) ==
    IF is_open
    THEN Drawn(<<Widget("collapsing", heading, TRUE, contents.widgets)>>,
               contents.queries)
    ELSE Drawn(<<Widget("collapsing", heading, FALSE, <<>>)>>, <<>>)

\* Which headers the user has open in a frame.
OpenChoices ==
    {[entities |-> es, components |-> cs] :
        es \in {{}, EntityPaths}, cs \in {{}, ComponentNames}}

(***************************************************************************)
(* The inspection panel                                                    *)
(***************************************************************************)
\* Faulty variant: every line formats the slice at index 0.
instance_lines_first_only(data) ==
    [k \in 1..Len(data) |-> label(format_arrow(sliced(data, 0, 1)))]

\* for i in 0..num_instances { ui.label(format_arrow(&*data.sliced(i, 1))) }
instance_lines(data) ==
    [k \in 1..Len(data) |-> label(format_arrow(sliced(data, k - 1, 1)))]

component_ui(entity_db, timeline, entity_path, component_name) ==
    LET query == LatestAtQuery_latest(timeline)
        component == latest_at(entity_db, query, entity_path, component_name)
    IN  Then(Drawn(<<>>, <<Query("latest_at", entity_path, component_name)>>),
             IF IsSome(component)
             THEN Drawn(<<ScrollArea(instance_lines(Unwrap(component)))>>, <<>>)
             ELSE Nothing)

\* for component in components { ui.collapsing(component.to_string(), ...) }
RECURSIVE component_sections(_, _, _, _, _)
component_sections(entity_db, open, timeline, entity_path, components) ==
    IF components = <<>> THEN Nothing
    ELSE LET component == Head(components)
         IN  Then(collapsing(ComponentNameToString(component),
                             component \in open.components,
                             component_ui(entity_db, timeline, entity_path, component)),
                  component_sections(entity_db, open, timeline, entity_path,
                                     Tail(components)))

RECURSIVE Reverse(_)
Reverse(s) == IF s = <<>> THEN <<>> ELSE Append(Reverse(Tail(s)), Head(s))

\* Faulty variant: the components are drawn in the reverse of the store's order.
entity_ui_reversed(entity_db, open, timeline, entity_path) ==
    LET components == all_components(entity_db, timeline, entity_path)
    IN  Then(Drawn(<<>>, <<Query("all_components", entity_path, 0)>>),
             IF IsSome(components)
             THEN component_sections(entity_db, open, timeline, entity_path,
                                     Reverse(Unwrap(components)))
             ELSE Nothing)

entity_ui(entity_db, open, timeline, entity_path) ==
    LET components == all_components(entity_db, timeline, entity_path)
    IN  Then(Drawn(<<>>, <<Query("all_components", entity_path, 0)>>),
             IF IsSome(components)
             THEN component_sections(entity_db, open, timeline, entity_path,
                                     Unwrap(components))
             ELSE Nothing)

\* for entity_path in entity_db.entity_paths() { ui.collapsing(...) }
RECURSIVE entity_sections(_, _, _, _)
entity_sections(entity_db, open, timeline, paths) ==
    IF paths = <<>> THEN Nothing
    ELSE LET entity_path == Head(paths)
         IN  Then(collapsing(EntityPathToString(entity_path),
                             entity_path \in open.entities,
                             entity_ui(entity_db, open, timeline, entity_path)),
                  entity_sections(entity_db, open, timeline, Tail(paths)))

entity_db_ui(entity_db, open) ==
    LET info == store_info(entity_db)
        timeline == log_time
        sections == Then(Drawn(<<>>, <<Query("entity_paths", 0, 0)>>),
                         entity_sections(entity_db, open, timeline,
                                         entity_paths(entity_db)))
    IN  Then(Drawn((IF IsSome(info)
                    THEN <<label("Application ID: " \o Unwrap(info))>>
                    ELSE <<>>)
                   \o <<separator, strong("Entities:")>>, <<>>),
             Drawn(<<ScrollArea(sections.widgets)>>, sections.queries))

NoRecordingLabel == label("No log database loaded yet.")

PanelHeader == <<add_space(4), vertical_centered(<<strong("Cartographer")>>), separator>>

\* Faulty variant: a missing recording is also drawn as an empty database.
ui_empty_db(db, open) ==
    Then(Drawn(PanelHeader, <<>>),
         IF IsSome(db)
         THEN entity_db_ui(Unwrap(db), open)
         ELSE Then(Drawn(<<NoRecordingLabel>>, <<>>), entity_db_ui(EmptyDb(None), open)))

\* CartographerRerun::ui, given what self.rerun_app.recording_db() returned
ui(db, open) ==
    Then(Drawn(PanelHeader, <<>>),
         IF IsSome(db)
         THEN entity_db_ui(Unwrap(db), open)
         ELSE Drawn(<<NoRecordingLabel>>, <<>>))

(***************************************************************************)
(* eframe::App for CartographerRerun                                       *)
(***************************************************************************)
\* self.rerun_app.recording_db()
recording_db == recording

Handled(handler, calls, db, panel) ==
    [handler |-> handler,   \* which handler ran
     calls   |-> calls,     \* the calls it made, in order
     at      |-> ingests,   \* how many log messages the store had taken by then
     db      |-> db,        \* the recording the panel was given
     widgets |-> panel.widgets,
     queries |-> panel.queries]

NotCalled ==
    [handler |-> "none", calls |-> <<>>, at |-> 0, db |-> None,
     widgets |-> <<>>, queries |-> <<>>]

\* Faulty variant: the recording acquired by an earlier frame is kept and reused.
update_cached(open) ==
    LET db == IF last.handler = "update" THEN last.db ELSE recording_db
    IN  Handled("update", <<"SidePanel.show(ui)", "rerun_app.update">>, db, ui(db, open))

\* Faulty variant: the viewer is updated before the panel is drawn.
update_viewer_first(open) ==
    LET db == recording_db
    IN  Handled("update", <<"rerun_app.update", "SidePanel.show(ui)">>, db, ui(db, open))

\* fn update: the side panel first, then the viewer
update(open) ==
    LET db == recording_db
    IN  Handled("update", <<"SidePanel.show(ui)", "rerun_app.update">>, db, ui(db, open))

\* fn save: forwards to the viewer
save == Handled("save", <<"rerun_app.save">>, None, Nothing)

(***************************************************************************)
(* Log messages reaching the store through the attached receiver           *)
(***************************************************************************)
V_small == Value(8, "1.5", FALSE, TRUE)
V_big   == Value(SMALL_ITEM_LIMIT, "[0, 1, 2]", FALSE, TRUE)
LoggedValues == {V_small, V_big}

ApplicationIds == {Some("my_app")}

CurrentDb(application_id) ==
    IF IsSome(recording) THEN Unwrap(recording) ELSE EmptyDb(application_id)

Contains(seq, x) == \E i \in 1..Len(seq) : seq[i] = x
AppendNew(seq, x) == IF Contains(seq, x) THEN seq ELSE Append(seq, x)

WithEntity(db, e) == [db EXCEPT !.entity_paths = AppendNew(@, e)]

WithCell(db, e, c, cell) ==
    [WithEntity(db, e) EXCEPT
        !.components[e] = Some(AppendNew(IF IsSome(@) THEN Unwrap(@) ELSE <<>>, c)),
        !.data[<<e, c>>] = cell]

Column(db, e, c) ==
    IF IsSome(db.data[<<e, c>>]) THEN Unwrap(db.data[<<e, c>>]) ELSE <<>>

(***************************************************************************)
(* Actions                                                                 *)
(***************************************************************************)
startup_vars == <<pc, result, rx, listener, serve_calls, add_receiver_calls,
                  window_created, viewer_constructed>>
format_vars == <<fmt_in, fmt_out>>

Init ==
    /\ pc = "setup_logging"
    /\ result = "none"
    /\ rx = "unbound"
    /\ listener = None
    /\ serve_calls = 0
    /\ add_receiver_calls = 0
    /\ window_created = FALSE
    /\ viewer_constructed = FALSE
    /\ recording = None
    /\ ingests = 0
    /\ last = NotCalled
    /\ fmt_in = V_small
    /\ fmt_out = None

Goto(from, to) ==
    /\ pc = from
    /\ pc' = to

\* re_log::setup_logging();
SetupLogging ==
    /\ Goto("setup_logging", "install_crash_handlers")
    /\ UNCHANGED <<result, rx, listener, serve_calls, add_receiver_calls, window_created,
                   viewer_constructed, recording, ingests, last, format_vars>>

\* re_crash_handler::install_crash_handlers(..);
InstallCrashHandlers ==
    /\ Goto("install_crash_handlers", "serve")
    /\ UNCHANGED <<result, rx, listener, serve_calls, add_receiver_calls, window_created,
                   viewer_constructed, recording, ingests, last, format_vars>>

\* let rx = re_sdk_comms::serve("0.0.0.0", DEFAULT_SERVER_PORT, ..)?;  Ok
ServeOk ==
    /\ Goto("serve", "run_native")
    /\ serve_calls' = serve_calls + 1
    /\ rx' = "main"
    /\ listener' = Some(<<"0.0.0.0", "DEFAULT_SERVER_PORT">>)
    /\ UNCHANGED <<result, add_receiver_calls, window_created,
                   viewer_constructed, recording, ingests, last, format_vars>>

\* Faulty variant: the bind error is swallowed and startup goes on.
ServeErr_ignored ==
    /\ Goto("serve", "run_native")
    /\ serve_calls' = serve_calls + 1
    /\ UNCHANGED <<result, rx, listener, add_receiver_calls, window_created,
                   viewer_constructed, recording, ingests, last, format_vars>>

\* ... serve(..)?;  Err: main returns the error
ServeErr ==
    /\ Goto("serve", "returned")
    /\ serve_calls' = serve_calls + 1
    /\ result' = "bind_error"
    /\ UNCHANGED <<rx, listener, add_receiver_calls, window_created,
                   viewer_constructed, recording, ingests, last, format_vars>>

\* eframe::run_native(..): the window is created and the app creator is called;
\* rx has moved into the creator closure
RunNativeOk ==
    /\ Goto("run_native", "setup_renderer")
    /\ rx' = "creator"
    /\ window_created' = TRUE
    /\ UNCHANGED <<result, listener, serve_calls, add_receiver_calls,
                   viewer_constructed, recording, ingests, last, format_vars>>

\* eframe::run_native(..)?;  Err before the creator is called
RunNativeErr ==
    /\ Goto("run_native", "returned")
    /\ rx' = "dropped"
    /\ result' = "run_native_error"
    /\ UNCHANGED <<listener, serve_calls, add_receiver_calls, window_created,
                   viewer_constructed, recording, ingests, last, format_vars>>

\* re_viewer::customize_eframe_and_setup_renderer(cc)?;  Ok
SetupRendererOk ==
    /\ Goto("setup_renderer", "new_app")
    /\ UNCHANGED <<result, rx, listener, serve_calls, add_receiver_calls, window_created,
                   viewer_constructed, recording, ingests, last, format_vars>>

\* ... customize_eframe_and_setup_renderer(cc)?;  Err: the creator fails, run_native
\* returns the error and main returns it
SetupRendererErr ==
    /\ Goto("setup_renderer", "returned")
    /\ rx' = "dropped"
    /\ result' = "renderer_error"
    /\ UNCHANGED <<listener, serve_calls, add_receiver_calls, window_created,
                   viewer_constructed, recording, ingests, last, format_vars>>

\* Faulty variant: viewer construction can fail and make main return an error.
NewApp_fallible ==
    /\ pc = "new_app"
    /\ \/ /\ pc' = "add_receiver"
          /\ viewer_constructed' = TRUE
          /\ UNCHANGED <<result, rx>>
       \/ /\ pc' = "returned"
          /\ result' = "viewer_error"
          /\ rx' = "dropped"
          /\ UNCHANGED viewer_constructed
    /\ UNCHANGED <<listener, serve_calls, add_receiver_calls, window_created,
                   recording, ingests, last, format_vars>>

\* let mut rerun_app = re_viewer::App::new(..);
NewApp ==
    /\ Goto("new_app", "add_receiver")
    /\ viewer_constructed' = TRUE
    /\ UNCHANGED <<result, rx, listener, serve_calls, add_receiver_calls, window_created,
                   recording, ingests, last, format_vars>>

\* rerun_app.add_receiver(rx); Ok(Box::new(CartographerRerun { rerun_app }))
AddReceiver ==
    /\ Goto("add_receiver", "running")
    /\ rx' = "viewer"
    /\ add_receiver_calls' = add_receiver_calls + 1
    /\ UNCHANGED <<result, listener, serve_calls, window_created, viewer_constructed,
                   recording, ingests, last, format_vars>>

\* eframe calls update for a frame
Update ==
    /\ pc = "running"
    /\ \E open \in OpenChoices : last' = update(open)
    /\ UNCHANGED <<startup_vars, recording, ingests, format_vars>>

\* Faulty variant: save registers the receiver again.
Save_reregisters ==
    /\ pc = "running"
    /\ last' = save
    /\ add_receiver_calls' = add_receiver_calls + 1
    /\ UNCHANGED <<pc, result, rx, listener, serve_calls, window_created,
                   viewer_constructed, recording, ingests, format_vars>>

\* eframe calls save
Save ==
    /\ pc = "running"
    /\ last' = save
    /\ UNCHANGED <<startup_vars, recording, ingests, format_vars>>

\* the window is closed: run_native returns Ok(()) and main returns Ok(())
CloseWindow ==
    /\ Goto("running", "returned")
    /\ result' = "ok"
    /\ UNCHANGED <<rx, listener, serve_calls, add_receiver_calls, window_created,
                   viewer_constructed, recording, ingests, last, format_vars>>

Receiving ==
    /\ pc = "running"
    /\ rx = "viewer"
    /\ ingests < MaxIngest
    /\ ingests' = ingests + 1
    /\ UNCHANGED <<startup_vars, last, format_vars>>

\* a client logs an entity path without any component on log_time
LogEntity ==
    /\ Receiving
    /\ \E e \in EntityPaths, id \in ApplicationIds :
          recording' = Some(WithEntity(CurrentDb(id), e))

\* a client logs a batch for (e, c) one instance longer than the last one
LogInstance ==
    /\ Receiving
    /\ \E e \in EntityPaths, c \in ComponentNames, v \in LoggedValues,
          id \in ApplicationIds :
          LET db == CurrentDb(id)
          IN  /\ Len(Column(db, e, c)) < MaxInstances
              /\ recording' = Some(WithCell(db, e, c, Some(Append(Column(db, e, c), v))))

\* a client logs an empty batch for (e, c)
LogEmpty ==
    /\ Receiving
    /\ \E e \in EntityPaths, c \in ComponentNames, id \in ApplicationIds :
          recording' = Some(WithCell(CurrentDb(id), e, c, Some(<<>>)))

\* (e, c) is known to the store but its latest-at query yields no value
LogNoValue ==
    /\ Receiving
    /\ \E e \in EntityPaths, c \in ComponentNames, id \in ApplicationIds :
          recording' = Some(WithCell(CurrentDb(id), e, c, None))

Next ==
    \/ SetupLogging
    \/ InstallCrashHandlers
    \/ ServeOk
    \/ ServeErr
    \/ RunNativeOk
    \/ RunNativeErr
    \/ SetupRendererOk
    \/ SetupRendererErr
    \/ NewApp
    \/ AddReceiver
    \/ Update
    \/ Save
    \/ CloseWindow
    \/ LogEntity
    \/ LogInstance
    \/ LogEmpty
    \/ LogNoValue

Spec == Init /\ [][Next]_vars

(***************************************************************************)
(* format_arrow on its own: every value slice of FormatInputs is formatted *)
(***************************************************************************)
Sizes ==
    (0..SizeMargin)
        \cup ((SMALL_ITEM_LIMIT - SizeMargin)..(SMALL_ITEM_LIMIT + SizeMargin))

FormatInputs ==
    {Value(b, t, n, ok) : b \in Sizes, t \in {"1.5", "[0, 1, 2]"},
                          n \in BOOLEAN, ok \in BOOLEAN}

InitFormat ==
    /\ pc = "setup_logging"
    /\ result = "none"
    /\ rx = "unbound"
    /\ listener = None
    /\ serve_calls = 0
    /\ add_receiver_calls = 0
    /\ window_created = FALSE
    /\ viewer_constructed = FALSE
    /\ recording = None
    /\ ingests = 0
    /\ last = NotCalled
    /\ fmt_in \in FormatInputs
    /\ fmt_out = None

\* ui.label(format_arrow(&*data.sliced(i, 1))) on a column holding fmt_in alone
Format ==
    /\ fmt_out = None
    /\ fmt_out' = Some(format_arrow(sliced(<<fmt_in>>, 0, 1)))
    /\ UNCHANGED <<startup_vars, recording, ingests, last, fmt_in>>

NextFormat == Format

SpecFormat == InitFormat /\ [][NextFormat]_vars

(***************************************************************************)
(* Reading a frame                                                         *)
(***************************************************************************)
IsFrame == last.handler = "update"

\* what the panel shows below its title
Content == SubSeq(last.widgets, Len(PanelHeader) + 1, Len(last.widgets))

\* the entity sections: the body of the scroll area that ends the panel
EntityList == last.widgets[Len(last.widgets)].body

TextLabel(text) == [kind |-> "label", text |-> text, open |-> TRUE, body |-> <<>>]

\* the text a value is expected to be shown as
ExpectedText(v) ==
    IF v.bytes < 256 /\ v.render_ok
    THEN IF v.is_null THEN "null" ELSE v.text
    ELSE ToString(v.bytes) \o " bytes"

ExpectedLines(column) == [k \in 1..Len(column) |-> TextLabel(ExpectedText(column[k]))]

ComponentsOf(db, e) ==
    IF IsSome(db.components[e]) THEN Unwrap(db.components[e]) ELSE <<>>

Calls(call, e, c) ==
    Cardinality({i \in 1..Len(last.queries) :
                    last.queries[i] = [call |-> call, entity_path |-> e, component |-> c]})

\* the recording holds one entity with one component with one instance
SingleInstance(db) ==
    /\ Len(db.entity_paths) = 1
    /\ LET e == db.entity_paths[1]
       IN  /\ Len(ComponentsOf(db, e)) = 1
           /\ LET cell == db.data[<<e, ComponentsOf(db, e)[1]>>]
              IN  IsSome(cell) /\ Len(Unwrap(cell)) = 1

TheValue(db) ==
    LET e == db.entity_paths[1] IN Unwrap(db.data[<<e, ComponentsOf(db, e)[1]>>])[1]

(***************************************************************************)
(* C1. In a frame in which the viewer reports no active recording, the     *)
(* panel shows, below its title, the "No log database loaded yet." label   *)
(* and nothing else, and makes no call on the store.                       *)
(***************************************************************************)
C1_NoRecordingPanel ==
    (IsFrame /\ last.db = None) =>
        /\ Content = <<TextLabel("No log database loaded yet.")>>
        /\ last.queries = <<>>

C1_Witness == pc = "running" /\ IsFrame /\ last.db = None /\ recording = None

(***************************************************************************)
(* C2, as stated. While nothing has been ingested every frame shows the    *)
(* no-recording state; a frame drawn from a recording of one entity with   *)
(* one component with one instance shows exactly one entity section, one   *)
(* component section and one value line, the value's display form or its   *)
(* byte-count fallback.                                                    *)
(***************************************************************************)
C2_AsStated ==
    IsFrame =>
        /\ ingests = 0 => Content = <<TextLabel("No log database loaded yet.")>>
        /\ (IsSome(last.db) /\ SingleInstance(Unwrap(last.db))) =>
              /\ Len(EntityList) = 1
              /\ Len(EntityList[1].body) = 1
              /\ EntityList[1].body[1].body =
                    <<[kind |-> "scroll_area", text |-> "", open |-> TRUE,
                       body |-> <<TextLabel(ExpectedText(TheValue(Unwrap(last.db))))>>]>>

(***************************************************************************)
(* C2, amended. While nothing has been ingested every frame shows the      *)
(* no-recording state; a frame drawn from a recording of one entity with   *)
(* one component with one instance shows exactly one entity section; that  *)
(* section holds exactly one component section while it is expanded and    *)
(* nothing while it is collapsed; the component section holds exactly one  *)
(* value line, the value's display form or its byte-count fallback, while  *)
(* it is expanded and nothing while it is collapsed.                       *)
(***************************************************************************)
C2_EndToEnd ==
    IsFrame =>
        /\ ingests = 0 => Content = <<TextLabel("No log database loaded yet.")>>
        /\ (IsSome(last.db) /\ SingleInstance(Unwrap(last.db))) =>
              /\ Len(EntityList) = 1
              /\ EntityList[1].kind = "collapsing"
              /\ IF EntityList[1].open
                 THEN /\ Len(EntityList[1].body) = 1
                      /\ EntityList[1].body[1].kind = "collapsing"
                      /\ IF EntityList[1].body[1].open
                         THEN EntityList[1].body[1].body =
                                <<[kind |-> "scroll_area", text |-> "", open |-> TRUE,
                                   body |-> <<TextLabel(ExpectedText(
                                                TheValue(Unwrap(last.db))))>>]>>
                         ELSE EntityList[1].body[1].body = <<>>
                 ELSE EntityList[1].body = <<>>

C2_Witness ==
    /\ IsFrame /\ IsSome(last.db) /\ SingleInstance(Unwrap(last.db))
    /\ TheValue(Unwrap(last.db)).bytes >= 256
    /\ EntityList[1].open
    /\ EntityList[1].body[1].open
    /\ Len(EntityList[1].body[1].body[1].body) = 1

\* the k-th entity section shows the components of the k-th entity path
SectionEntity(k) == Unwrap(last.db).entity_paths[k]

ComponentLabels(names) ==
    [j \in 1..Len(names) |-> "rerun.components.C" \o ToString(names[j])]

SectionLabels(sections) == [j \in 1..Len(sections) |-> sections[j].text]

AllCollapsing(sections) == \A j \in 1..Len(sections) : sections[j].kind = "collapsing"

(***************************************************************************)
(* C3, as stated. In each frame, for every entity of the active recording  *)
(* with N components on log_time (none reported counts as N = 0), the      *)
(* entity's section holds exactly N nested collapsible sections labelled   *)
(* with the store's component names, in the store's order.                 *)
(***************************************************************************)
C3_AsStated ==
    (IsFrame /\ IsSome(last.db)) =>
        /\ Len(EntityList) = Len(Unwrap(last.db).entity_paths)
        /\ \A k \in 1..Len(EntityList) :
              LET names == ComponentsOf(Unwrap(last.db), SectionEntity(k))
              IN  /\ AllCollapsing(EntityList[k].body)
                  /\ SectionLabels(EntityList[k].body) = ComponentLabels(names)

(***************************************************************************)
(* C3, amended. In each frame, for every entity of the active recording    *)
(* whose section is expanded and that has N components on log_time (none   *)
(* reported counts as N = 0), the entity's section holds exactly N nested  *)
(* collapsible sections labelled with the store's component names, in the  *)
(* store's order, from one all_components call for that entity; a          *)
(* collapsed entity section holds nothing and makes no all_components call.*)
(***************************************************************************)
C3_ComponentSections ==
    (IsFrame /\ IsSome(last.db)) =>
        /\ Len(EntityList) = Len(Unwrap(last.db).entity_paths)
        /\ \A k \in 1..Len(EntityList) :
              LET names == ComponentsOf(Unwrap(last.db), SectionEntity(k))
              IN  IF EntityList[k].open
                  THEN /\ AllCollapsing(EntityList[k].body)
                       /\ SectionLabels(EntityList[k].body) = ComponentLabels(names)
                       /\ Calls("all_components", SectionEntity(k), 0) = 1
                  ELSE /\ EntityList[k].body = <<>>
                       /\ Calls("all_components", SectionEntity(k), 0) = 0

\* an expanded entity whose two components the store returns in descending order
C3_Witness ==
    /\ IsFrame /\ IsSome(last.db)
    /\ \E k \in 1..Len(EntityList) :
          /\ EntityList[k].open
          /\ Len(EntityList[k].body) = 2
          /\ ComponentsOf(Unwrap(last.db), SectionEntity(k)) = <<2, 1>>

(***************************************************************************)
(* C4. Whenever component_ui runs for a component (its section is          *)
(* expanded), it makes one latest-at query for it; if the query returns a  *)
(* column of M instances it draws exactly M text lines, the k-th being the *)
(* formatted k-th instance, in index order; if the query yields no value   *)
(* it draws nothing.                                                       *)
(***************************************************************************)
C4_InstanceLines ==
    (IsFrame /\ IsSome(last.db)) =>
        \A k \in 1..Len(EntityList) :
            EntityList[k].open =>
                \A j \in 1..Len(EntityList[k].body) :
                    LET e == SectionEntity(k)
                        c == ComponentsOf(Unwrap(last.db), e)[j]
                        cell == Unwrap(last.db).data[<<e, c>>]
                        section == EntityList[k].body[j]
                    IN  section.open =>
                            /\ Calls("latest_at", e, c) = 1
                            /\ IF IsSome(cell)
                               THEN /\ Len(section.body) = 1
                                    /\ section.body[1].kind = "scroll_area"
                                    /\ section.body[1].body = ExpectedLines(Unwrap(cell))
                               ELSE section.body = <<>>

\* an expanded component with two instances that are shown differently
C4_Witness ==
    /\ IsFrame /\ IsSome(last.db)
    /\ \E k \in 1..Len(EntityList), j \in 1..MaxComponents :
          /\ EntityList[k].open
          /\ j <= Len(EntityList[k].body)
          /\ EntityList[k].body[j].open
          /\ Len(EntityList[k].body[j].body) = 1
          /\ Len(EntityList[k].body[j].body[1].body) = 2
          /\ EntityList[k].body[j].body[1].body[1] # EntityList[k].body[j].body[1].body[2]

(***************************************************************************)
(* C5. format_arrow returns the value's display string ("null" for a null  *)
(* value) when the value is smaller than 256 bytes and rendering it        *)
(* succeeds, and "<N> bytes", N being the value's size, in every other     *)
(* case; it always returns a string.                                       *)
(***************************************************************************)
C5_FormatArrow ==
    IsSome(fmt_out) =>
        /\ Unwrap(fmt_out) \in STRING
        /\ (fmt_in.bytes < 256 /\ fmt_in.render_ok /\ ~fmt_in.is_null)
              => Unwrap(fmt_out) = fmt_in.text
        /\ (fmt_in.bytes < 256 /\ fmt_in.render_ok /\ fmt_in.is_null)
              => Unwrap(fmt_out) = "null"
        /\ (fmt_in.bytes >= 256 \/ ~fmt_in.render_ok)
              => Unwrap(fmt_out) = ToString(fmt_in.bytes) \o " bytes"

\* a value of exactly 256 bytes that would render has been formatted
C5_Witness ==
    /\ fmt_in.bytes = 256 /\ fmt_in.render_ok
    /\ fmt_out = Some("256 bytes")

(***************************************************************************)
(* C6. The receiver is bound to 0.0.0.0 and the default port, by the one   *)
(* serve call main makes, before the window exists and before any frame;   *)
(* if the bind fails main returns the error, and then no window is         *)
(* created, no viewer is constructed, no handler ever runs and serve is    *)
(* not called again.                                                       *)
(***************************************************************************)
C6_BindFirstOrAbort ==
    /\ serve_calls <= 1
    /\ (window_created \/ viewer_constructed \/ last.handler # "none"
            \/ pc \in {"setup_renderer", "new_app", "add_receiver", "running"})
          => /\ serve_calls = 1
             /\ listener = Some(<<"0.0.0.0", "DEFAULT_SERVER_PORT">>)
    /\ (serve_calls = 1 /\ listener = None)
          => /\ pc = "returned"
             /\ result = "bind_error"
             /\ ~window_created
             /\ ~viewer_constructed
             /\ last.handler = "none"

C6_Witness == result = "bind_error" /\ pc = "returned" /\ serve_calls = 1

(***************************************************************************)
(* C7, as stated. A failure of the network bind is the only thing that     *)
(* makes main return an error.                                             *)
(***************************************************************************)
C7_AsStated == pc = "returned" => result \in {"ok", "bind_error"}

(***************************************************************************)
(* C7, amended. main returns an error only when the network bind fails,    *)
(* when eframe::run_native fails, or when the renderer setup inside the    *)
(* app creator fails: a bind failure returns before any window exists, a   *)
(* renderer failure returns before the viewer is constructed; logging      *)
(* setup, crash-handler install, viewer construction and receiver attach   *)
(* cannot make main return an error, and no update or save call makes main *)
(* return.                                                                 *)
(***************************************************************************)
C7_StartupFatal ==
    /\ [](/\ result \in {"none", "ok", "bind_error", "run_native_error",
                          "renderer_error"}
          /\ (pc = "returned") = (result # "none")
          /\ result = "bind_error" => (listener = None /\ ~window_created)
          /\ result = "run_native_error" => listener # None
          /\ result = "renderer_error" => (listener # None /\ ~viewer_constructed))
    /\ [][last' # last => (pc' = pc /\ result' = result)]_vars

C7_Witness ==
    /\ pc = "returned"
    /\ result = "renderer_error"
    /\ window_created

(***************************************************************************)
(* C8. Whenever the render loop is running or a handler has run, the       *)
(* receiver has been registered with the viewer exactly once and is still  *)
(* held by the viewer: the registration precedes the first frame and no    *)
(* update or save registers, replaces or drops it.                         *)
(***************************************************************************)
C8_ReceiverRegisteredOnce ==
    /\ add_receiver_calls <= 1
    /\ (pc = "running" \/ last.handler # "none")
          => (add_receiver_calls = 1 /\ rx = "viewer")
    /\ rx = "viewer" => add_receiver_calls = 1

C8_Witness ==
    /\ pc = "running"
    /\ last.handler = "save"
    /\ ingests > 0
    /\ rx = "viewer"

(***************************************************************************)
(* C9. The recording changes only when the receiver ingests a message: no  *)
(* handler step changes it; and every frame draws the recording the viewer *)
(* holds in that frame, never one kept from an earlier frame.              *)
(***************************************************************************)
C9_ReadOnlyPanel ==
    /\ [](IsFrame /\ last.at = ingests => last.db = recording)
    /\ [][ingests' = ingests => recording' = recording]_vars

\* a frame drew a recording, and the receiver has changed the recording since
C9_Witness ==
    /\ IsFrame
    /\ IsSome(last.db)
    /\ last.at < ingests
    /\ last.db # recording

(***************************************************************************)
(* C10. Every update call, with or without an active recording, first      *)
(* draws the side panel and then calls the viewer's update exactly once.   *)
(***************************************************************************)
C10_PanelThenViewer ==
    IsFrame =>
        /\ last.calls = <<"SidePanel.show(ui)", "rerun_app.update">>
        /\ Len(last.widgets) > 0

C10_Witness == IsFrame /\ IsSome(last.db) /\ Len(last.calls) = 2

====
